---------------------------- MODULE Spec2Model ----------------------------
(***************************************************************************)
(* Hazard-report ingestion and notification pipeline of the OceanGuard     *)
(* backend: createHazardReport (controllers/hazardController.ts), the      *)
(* authority e-mail with its duplicate-suppression ledger                  *)
(* (EmailNotification collection), the socket.io broadcast, the nearby     *)
(* user fan-out (services/notificationService.ts) and the report           *)
(* moderation handlers that share the report store.                        *)
(*                                                                         *)
(* Every `await` of a handler is a suspension point: a handler is a        *)
(* process whose steps are the code between two awaits, and the handlers   *)
(* of concurrent requests interleave at those points.  Coordinates are     *)
(* fixed-point numbers in tenths of a degree.                              *)
(***************************************************************************)
EXTENDS Integers, FiniteSets, Sequences, TLC

\* ---------------------------------------------------------------- bounds
MaxReqs == 2        \* concurrent requests of the ingestion specification
MaxFull == 1        \* requests of the full specification and of the moderation
MaxUsers == 4       \* users of the directory
MaxEvents == 12     \* 'hazard-reported' events one browser receives

\* ------------------------------------------------------ program constants
BoxTenths == 1              \* the +-0.1 degree box of the ledger query
RadiusMeters == 10000       \* radius handed to notifyNearbyUsers
MetersPerTenth == 11000     \* 0.1 degree is "approximately 11km"
MinSeverity == 1            \* min of the severity slider and of the schema
MaxSeverity == 10           \* max of the severity slider and of the schema
InitialSeverity == 5        \* useState(5) of the report wizard
totalSteps == 3             \* steps of the report wizard
BadgeCap == 9               \* largest count the unread badge prints

Reqs == 1 .. MaxReqs
FullReqs == 1 .. MaxFull
Coords == {0, BoxTenths}    \* a latitude and the one on the edge of its box
Users == 1 .. MaxUsers
AllUsers == 0 .. MaxUsers     \* user 0: the reporter of the ingestion specification
FullUsers == {1, 2}           \* the users registered in the full specification
IngestUsers == {0}          \* the reporter alone, who has stored no location
Kinds == {"Oil Spill", "Debris"}
FarLng == 2 * BoxTenths     \* a longitude outside the box around longitude 0
Sockets == {0, 1}           \* browsers that can connect: of user 0 (no stored location) and of user 1
Accounts == {1, 2}          \* the users whose tokens reach the admin routes: the administrator and user 2
AdminReqs == {1, 2}         \* connections that send admin requests, one request each at a time
AdminReports == {1}         \* the report the admin requests name

\* Request bodies.  shape = "ok": location parses to two numbers and the
\* document passes the HazardReport schema; "badloc": the location object has
\* no numeric lat/lng; "badschema": type, severity or range rejected by the
\* schema validators when the document is created; "noloc": the body has no
\* location (or a string that is no JSON) and no lat/lng fields, and the
\* handler falls back to parseFloat('0') for both coordinates.
Inputs ==
    [type : {"Oil Spill"}, lat : Coords, lng : {0}, shape : {"ok"}]
      \cup [type : Kinds, lat : {0}, lng : {FarLng}, shape : {"ok"}]
      \cup [type : {"Oil Spill"}, lat : {0}, lng : {0}, shape : {"badloc", "badschema", "noloc"}]

NoInput == [type |-> "none", lat |-> 0, lng |-> 0, shape |-> "none"]

\* The user directory: contact fields and stored location of every user.
Directory(u) ==
    CASE u = 1 -> [email |-> TRUE,  phone |-> TRUE,  hasLoc |-> TRUE,  lat |-> 0, lng |-> 0]
      [] u = 2 -> [email |-> TRUE,  phone |-> FALSE, hasLoc |-> TRUE,  lat |-> 0, lng |-> 0]
      [] u = 3 -> [email |-> FALSE, phone |-> TRUE,  hasLoc |-> TRUE,  lat |-> 0, lng |-> 0]
      [] u = 4 -> [email |-> FALSE, phone |-> FALSE, hasLoc |-> TRUE,  lat |-> 0, lng |-> 0]
      [] OTHER -> [email |-> TRUE,  phone |-> TRUE,  hasLoc |-> FALSE, lat |-> 0, lng |-> 0]

\* The ledger document of an incident notified before the behaviour starts.
PriorRecord ==
    [reportId |-> 0, type |-> "Oil Spill", lat |-> 0, lng |-> FarLng, emailSent |-> TRUE]

VARIABLES
    pc,         \* position of each createHazardReport handler
    req,        \* the request body each handler works on
    res,        \* HTTP status sent by each handler, 0 = none yet
    reports,    \* HazardReport collection: report id -> document or NoReport
    ledger,     \* EmailNotification collection (set of documents)
    registered, \* User collection: the ids of the registered users
    env,        \* process.env: which configuration values are present
    emailSent,  \* local `emailSent` of each handler
    emitted,    \* number of 'hazard-reported' events emitted for each report
    found,      \* local `nearbyUsers` of each notifyNearbyUsers call
    fan,        \* state of every channel attempt of each fan-out
    seen,       \* the reports that had a ledger document when each handler queried it
    hist,       \* history of each handler (what it has done so far)
    place,      \* User.location of every user (NoPlace: none stored)
    npc,        \* position of the notifyNearbyUsers pass followed await by await
    hazard,     \* its arguments: hazard.location and radiusInMeters
    nearbyUsers, \* its local `nearbyUsers`: the array User.find resolved to
    att,        \* its channel attempts: stage, sender calls, network requests
    warns,      \* 'Email service not configured' warnings logged during the pass
    outcome,    \* the object the pass returned
    nres,       \* status the caller of the pass sent, 0 = none yet
    nemitted,   \* 'hazard-reported' events the caller of the pass emitted
    lookup,     \* how User.find of the pass ended
    listeners,  \* the sockets connected to the socket.io server
    inbox,      \* the 'hazard-reported' events each socket has received, oldest first
    step,       \* ReportHazardWizard: the step shown
    severity,   \* ReportHazardWizard: the `severity` state
    wire,       \* `severity` of the request body the wizard's submit produced
    labels,     \* the severity label each place has rendered, "" = not yet
    loaded,     \* module-level constants of notificationService, set when it was loaded
    hazardNotifications, \* AppContent: the notification list of one browser
    isOpen,     \* NotificationCenter: the panel is shown
    arrived,    \* number of 'hazard-reported' events the browser has received
    clearedAt,  \* value of `arrived` at the last onClearAll
    marked,     \* ids onMarkAsRead has been called with since the last onClearAll
    accounts,   \* User collection: `role` and `isActive` of every user
    areq,       \* the admin request each connection has in progress
    ares        \* HTTP status of the last admin response of each connection, 0 = none yet

coreVars == <<pc, req, res, reports, ledger, registered, env, emailSent, emitted, found, fan, seen, hist>>

dispatchVars == <<place, npc, hazard, nearbyUsers, att, warns, outcome, nres, nemitted, lookup>>

pushVars == <<listeners, inbox>>

wizardVars == <<step, severity, wire, labels>>

configVars == <<loaded>>

clientVars == <<hazardNotifications, isOpen, arrived, clearedAt, marked>>

adminVars == <<accounts, areq, ares>>

\* The state the socket.io steps leave alone besides coreVars and dispatchVars.
besidePush == <<wizardVars, configVars, clientVars, adminVars>>

\* The state the wizard and label steps leave alone besides coreVars and dispatchVars.
besideWizard == <<pushVars, configVars, clientVars, adminVars>>

\* The state the browser's notification steps leave alone besides coreVars and dispatchVars.
besideClient == <<pushVars, wizardVars, configVars, adminVars>>

\* The state the admin routes leave alone besides the report and user stores.
besideAdmin == <<pushVars, wizardVars, configVars, clientVars>>

extVars == <<pushVars, wizardVars, configVars, clientVars, adminVars>>

vars == <<pc, req, res, reports, ledger, registered, env, emailSent, emitted, found, fan, seen, hist,
          place, npc, hazard, nearbyUsers, att, warns, outcome, nres, nemitted, lookup,
          listeners, inbox, step, severity, wire, labels, loaded,
          hazardNotifications, isOpen, arrived, clearedAt, marked,
          accounts, areq, ares>>

\* The verification fields of a HazardReport document with their schema
\* defaults; verifiedBy 0 and verifiedAt "null" stand for null.
NoReport ==
    [exists |-> FALSE, verified |-> FALSE, verificationStatus |-> "unverified",
     verifiedBy |-> 0, verifiedAt |-> "null"]

\* The document HazardReport.create stores: every verification field at its default.
NewReport == [NoReport EXCEPT !.exists = TRUE]

\* The update of verifyReport, made for the admin whose request it is.
Verified(doc, adminId) ==
    [doc EXCEPT !.verified = TRUE, !.verificationStatus = "admin-verified",
                !.verifiedBy = adminId, !.verifiedAt = "date"]

NoAttempt == [email |-> "none", wa |-> "none"]

\* audience: the sockets that were connected when the handler called io.emit.
NoHist == [persisted |-> FALSE, decision |-> "none", authAttempts |-> 0, fanout |-> FALSE,
           audience |-> {}]

\* process.env: authority = OCEAN_AUTHORITY_EMAIL, email = EMAIL_USER and
\* EMAIL_PASSWORD, twilio = TWILIO_ACCOUNT_SID and TWILIO_AUTH_TOKEN (the
\* module-level twilioClient is non-null), waNumber = TWILIO_WHATSAPP_NUMBER.
Configured == [authority |-> TRUE, email |-> TRUE, twilio |-> TRUE, waNumber |-> TRUE]

Envs == {Configured, [authority |-> FALSE, email |-> FALSE, twilio |-> FALSE, waNumber |-> FALSE]}

\* notificationService is loaded: twilioClient is built if TWILIO_ACCOUNT_SID
\* and TWILIO_AUTH_TOKEN are present in e, else null; twilioWhatsAppNumber is
\* copied from e.
ModuleLoad(e) == [twilioClient |-> e.twilio, twilioWhatsAppNumber |-> e.waNumber]

NoPlace == [hasLoc |-> FALSE, lat |-> 0, lng |-> 0]

\* The location stored for user u in the directory.
StoredPlace(u) ==
    IF Directory(u).hasLoc
      THEN [hasLoc |-> TRUE, lat |-> Directory(u).lat, lng |-> Directory(u).lng]
      ELSE NoPlace

NoHazard == [lat |-> 0, lng |-> 0, radius |-> 0]

NoTry == [stage |-> "none", calls |-> 0, net |-> 0]

NoOutcome == [returned |-> FALSE, success |-> FALSE, notifiedCount |-> 0]

\* No notifyNearbyUsers pass is followed in detail yet.
DispatchIdle ==
    /\ npc = "idle"
    /\ hazard = NoHazard
    /\ nearbyUsers = <<>>
    /\ att = [u \in Users |-> [email |-> NoTry, wa |-> NoTry]]
    /\ warns = 0
    /\ outcome = NoOutcome
    /\ nres = 0
    /\ nemitted = 0
    /\ lookup = "none"

\* No socket has connected yet.
PushIdle ==
    /\ listeners = {}
    /\ inbox = [s \in Sockets |-> <<>>]

NoWire == [kind |-> "none"]

NoLabels == [wizard |-> "", mail |-> "", news |-> ""]

\* The report wizard as mounted, nothing submitted.
WizardIdle ==
    /\ step = 1
    /\ severity = InitialSeverity
    /\ wire = NoWire
    /\ labels = NoLabels

\* AppContent as mounted: useState([]), panel closed.
ClientIdle ==
    /\ hazardNotifications = <<>>
    /\ isOpen = FALSE
    /\ arrived = 0
    /\ clearedAt = 0
    /\ marked = {}

\* UserSchema: role defaults to 'user' and isActive to true; user 1 has been
\* made the administrator.
Account(u) == [role |-> IF u = 1 THEN "admin" ELSE "user", isActive |-> TRUE]

\* No user document: what findById resolves to (null) and req.user before isAdmin set it.
NoUser == [id |-> 0, role |-> "none", isActive |-> FALSE]

\* No Authorization header; decoded.userId of a valid token names a user.
NoToken == [kind |-> "none", userId |-> 0]

NoOp == [name |-> "none", id |-> 0, role |-> "none"]

\* A connection with no admin request in progress.
NoAdminReq == [pc |-> "idle", token |-> NoToken, op |-> NoOp, user |-> NoUser, doc |-> NoUser]

\* No admin request has been sent yet.
AdminIdle ==
    /\ accounts = [u \in AllUsers |-> Account(u)]
    /\ areq = [q \in AdminReqs |-> NoAdminReq]
    /\ ares = [q \in AdminReqs |-> 0]

\* The state after start-up with the documents rs in the report store.
StartWith(rs) ==
    /\ pc = [r \in Reqs |-> "idle"]
    /\ req = [r \in Reqs |-> NoInput]
    /\ res = [r \in Reqs |-> 0]
    /\ reports = rs
    /\ ledger = {PriorRecord}
    /\ emailSent = [r \in Reqs |-> FALSE]
    /\ emitted = [r \in Reqs |-> 0]
    /\ found = [r \in Reqs |-> {}]
    /\ fan = [r \in Reqs |-> [u \in Users |-> NoAttempt]]
    /\ seen = [r \in Reqs |-> {}]
    /\ hist = [r \in Reqs |-> NoHist]
    /\ DispatchIdle
    /\ PushIdle
    /\ WizardIdle
    /\ ClientIdle
    /\ AdminIdle

\* The state after start-up, before any request of the behaviour.
Start == StartWith([r \in Reqs |-> NoReport])

\* Full specification: two registered users in reach, any configuration.
Init ==
    /\ Start
    /\ registered = FullUsers
    /\ env \in Envs
    /\ loaded = ModuleLoad(env)
    /\ place = [u \in AllUsers |-> StoredPlace(u)]

\* Ingestion specification: no registered user has a stored location,
\* everything is configured.
InitIngest ==
    /\ Start
    /\ registered = IngestUsers
    /\ env = Configured
    /\ loaded = ModuleLoad(env)
    /\ place = [u \in AllUsers |-> StoredPlace(u)]

\* Admin specification: the two accounts are registered and the reports the
\* admin requests name are stored, as HazardReport.create left them.
InitAdmin ==
    /\ StartWith([r \in Reqs |-> IF r \in AdminReports THEN NewReport ELSE NoReport])
    /\ registered = Accounts
    /\ env = Configured
    /\ loaded = ModuleLoad(env)
    /\ place = [u \in AllUsers |-> StoredPlace(u)]

\* ----------------------------------------------------------------- helpers
\* Mutant: $gt / $lt in place of $gte / $lte (open rectangle).
MatchesQueryOpen(rec, type, lat, lng) ==
    /\ rec.type = type
    /\ rec.lat > lat - BoxTenths /\ rec.lat < lat + BoxTenths
    /\ rec.lng > lng - BoxTenths /\ rec.lng < lng + BoxTenths
    /\ rec.emailSent = TRUE

\* Mutant: the longitude condition is left out of the filter.
MatchesQueryLatOnly(rec, type, lat, lng) ==
    /\ rec.type = type
    /\ rec.lat >= lat - BoxTenths /\ rec.lat <= lat + BoxTenths
    /\ rec.emailSent = TRUE

\* The filter of EmailNotification.findOne: same type, emailSent = true and
\* the record's lat/lng inside [lat - 0.1, lat + 0.1] x [lng - 0.1, lng + 0.1].
MatchesQuery(rec, type, lat, lng) ==
    /\ rec.type = type
    /\ rec.lat >= lat - BoxTenths /\ rec.lat <= lat + BoxTenths
    /\ rec.lng >= lng - BoxTenths /\ rec.lng <= lng + BoxTenths
    /\ rec.emailSent = TRUE

existingNotification(led, type, lat, lng) ==
    \E rec \in led : MatchesQuery(rec, type, lat, lng)

\* The reports that have a document in a ledger.
Recorded(led) == {rec.reportId : rec \in led}

\* Squared distance in metres between a user's stored point and a centre.
DistSq(u, lat, lng) ==
    ((place[u].lat - lat) * (place[u].lat - lat)
       + (place[u].lng - lng) * (place[u].lng - lng))
      * MetersPerTenth * MetersPerTenth

\* User.find with $near / $maxDistance: users with a location in the radius.
findNearbyUsers(lat, lng, radius) ==
    {u \in registered : place[u].hasLoc /\ DistSq(u, lat, lng) <= radius * radius}

Settled == {"none", "ok", "fail", "unconfigured"}

AllSettled(r) ==
    \A u \in Users : fan[r][u].email \in Settled /\ fan[r][u].wa \in Settled

\* The handler sends its response and returns: its locals go out of scope.
Respond(r, status) ==
    /\ res' = [res EXCEPT ![r] = status]
    /\ pc' = [pc EXCEPT ![r] = "done"]
    /\ req' = [req EXCEPT ![r] = NoInput]
    /\ seen' = [seen EXCEPT ![r] = {}]
    /\ emailSent' = [emailSent EXCEPT ![r] = FALSE]
    /\ found' = [found EXCEPT ![r] = {}]
    /\ fan' = [fan EXCEPT ![r] = [u \in Users |-> NoAttempt]]


\* ------------------------------------------------- createHazardReport
\* Mutant: the `return` after the 400 is missing and the handler goes on to
\* HazardReport.create.
SubmitNoReturn(r, b) ==
    /\ pc[r] = "idle"
    /\ IF r = 1 THEN TRUE ELSE pc[r - 1] # "idle"
    /\ res' = [res EXCEPT ![r] = IF b.shape = "badloc" THEN 400 ELSE 0]
    /\ pc' = [pc EXCEPT ![r] = "create"]
    /\ req' = [req EXCEPT ![r] = b]
    /\ UNCHANGED <<emailSent, found, fan, seen>>
    /\ UNCHANGED <<reports, ledger, registered, env, emitted, hist>>
    /\ UNCHANGED dispatchVars
    /\ UNCHANGED extVars

\* Request arrives: the location is parsed and checked (lines 29-57); an
\* invalid location is answered 400, otherwise HazardReport.create is awaited.
Submit(r, b) ==
    /\ pc[r] = "idle"
    /\ IF r = 1 THEN TRUE ELSE pc[r - 1] # "idle"
    /\ IF b.shape = "badloc"
         THEN Respond(r, 400)
         ELSE /\ pc' = [pc EXCEPT ![r] = "create"]
              /\ req' = [req EXCEPT ![r] = b]
              /\ UNCHANGED <<res, emailSent, found, fan, seen>>
    /\ UNCHANGED <<reports, ledger, registered, env, emitted, hist>>
    /\ UNCHANGED dispatchVars
    /\ UNCHANGED extVars

\* HazardReport.create resolves: the report is stored and
\* EmailNotification.findOne is awaited.
CreateOk(r) ==
    /\ pc[r] = "create"
    /\ req[r].shape \in {"ok", "noloc"}
    /\ reports' = [reports EXCEPT ![r] = NewReport]
    /\ hist' = [hist EXCEPT ![r].persisted = TRUE]
    /\ pc' = [pc EXCEPT ![r] = "lookup"]
    /\ UNCHANGED <<req, res, ledger, registered, env, emailSent, emitted, found, fan, seen>>
    /\ UNCHANGED dispatchVars
    /\ UNCHANGED extVars

\* HazardReport.create rejects (schema validation or store error): 500.
CreateThrows(r) ==
    /\ pc[r] = "create"
    /\ Respond(r, 500)
    /\ UNCHANGED <<reports, ledger, registered, env, emitted, hist>>
    /\ UNCHANGED dispatchVars
    /\ UNCHANGED extVars

\* Mutant: the lookup is a findOneAndUpdate with upsert, which inserts a
\* record for the incident when none matches.
LookupOkUpserts(r) ==
    /\ pc[r] = "lookup"
    /\ IF existingNotification(ledger, req[r].type, req[r].lat, req[r].lng)
         THEN /\ pc' = [pc EXCEPT ![r] = "news"]
              /\ hist' = [hist EXCEPT ![r].decision = "suppress"]
              /\ ledger' = ledger
         ELSE /\ pc' = [pc EXCEPT ![r] = "authmail"]
              /\ hist' = [hist EXCEPT ![r].decision = "notify", ![r].authAttempts = @ + 1]
              /\ ledger' = ledger \cup {[reportId |-> r, type |-> req[r].type, lat |-> req[r].lat,
                                         lng |-> req[r].lng, emailSent |-> TRUE]}
    /\ seen' = [seen EXCEPT ![r] = Recorded(ledger)]
    /\ UNCHANGED <<req, res, reports, registered, env, emailSent, emitted, found, fan>>
    /\ UNCHANGED dispatchVars
    /\ UNCHANGED extVars

\* EmailNotification.findOne resolves.  No match: sendHazardNotificationEmail
\* is called and awaited.  Match: the e-mail is skipped and NewsArticle.create
\* is awaited.
LookupOk(r) ==
    /\ pc[r] = "lookup"
    /\ IF existingNotification(ledger, req[r].type, req[r].lat, req[r].lng)
         THEN /\ pc' = [pc EXCEPT ![r] = "news"]
              /\ hist' = [hist EXCEPT ![r].decision = "suppress"]
         ELSE /\ pc' = [pc EXCEPT ![r] = "authmail"]
              /\ hist' = [hist EXCEPT ![r].decision = "notify", ![r].authAttempts = @ + 1]
    /\ seen' = [seen EXCEPT ![r] = Recorded(ledger)]
    /\ UNCHANGED <<req, res, reports, ledger, registered, env, emailSent, emitted, found, fan>>
    /\ UNCHANGED dispatchVars
    /\ UNCHANGED extVars

\* EmailNotification.findOne rejects: caught by the outer catch, 500.
LookupThrows(r) ==
    /\ pc[r] = "lookup"
    /\ Respond(r, 500)
    /\ hist' = [hist EXCEPT ![r].decision = "error"]
    /\ UNCHANGED <<reports, ledger, registered, env, emitted>>
    /\ UNCHANGED dispatchVars
    /\ UNCHANGED extVars

\* What sendHazardNotificationEmail can return: false when the authority
\* address or the transport credentials are absent, otherwise the outcome of
\* transporter.sendMail (true, or false when it throws).
AuthorityResults == IF env.authority /\ env.email THEN BOOLEAN ELSE {FALSE}

\* sendHazardNotificationEmail settles; EmailNotification.create is awaited.
AuthMailDone(r, ok) ==
    /\ pc[r] = "authmail"
    /\ ok \in AuthorityResults
    /\ emailSent' = [emailSent EXCEPT ![r] = ok]
    /\ pc' = [pc EXCEPT ![r] = "record"]
    /\ UNCHANGED <<req, res, reports, ledger, registered, env, emitted, found, fan, seen, hist>>
    /\ UNCHANGED dispatchVars
    /\ UNCHANGED extVars

\* Mutant: only a successful attempt is written to the ledger.
RecordOkOnlySent(r) ==
    /\ pc[r] = "record"
    /\ ledger' = IF emailSent[r]
                   THEN ledger \cup {[reportId |-> r, type |-> req[r].type, lat |-> req[r].lat,
                                      lng |-> req[r].lng, emailSent |-> TRUE]}
                   ELSE ledger
    /\ pc' = [pc EXCEPT ![r] = "news"]
    /\ UNCHANGED <<req, res, reports, registered, env, emailSent, emitted, found, fan, seen, hist>>
    /\ UNCHANGED dispatchVars
    /\ UNCHANGED extVars

\* EmailNotification.create resolves: one ledger document is appended.
RecordOk(r) ==
    /\ pc[r] = "record"
    /\ ledger' = ledger \cup {[reportId |-> r, type |-> req[r].type, lat |-> req[r].lat,
                               lng |-> req[r].lng, emailSent |-> emailSent[r]]}
    /\ pc' = [pc EXCEPT ![r] = "news"]
    /\ UNCHANGED <<req, res, reports, registered, env, emailSent, emitted, found, fan, seen, hist>>
    /\ UNCHANGED dispatchVars
    /\ UNCHANGED extVars

\* Mutant: a rejected ledger write is answered by sending the e-mail again.
RecordThrowsRetry(r) ==
    /\ pc[r] = "record"
    /\ hist[r].authAttempts < 3
    /\ pc' = [pc EXCEPT ![r] = "authmail"]
    /\ hist' = [hist EXCEPT ![r].authAttempts = @ + 1]
    /\ UNCHANGED <<req, res, reports, ledger, registered, env, emailSent, emitted, found, fan, seen>>
    /\ UNCHANGED dispatchVars
    /\ UNCHANGED extVars

\* EmailNotification.create rejects: caught by the outer catch, 500.
RecordThrows(r) ==
    /\ pc[r] = "record"
    /\ Respond(r, 500)
    /\ UNCHANGED <<reports, ledger, registered, env, emitted, hist>>
    /\ UNCHANGED dispatchVars
    /\ UNCHANGED extVars

\* The payload of 'hazard-reported': id, type and location read from the
\* document HazardReport.create returned for request r.
hazardReported(r) ==
    [id |-> r, type |-> req[r].type, lat |-> req[r].lat, lng |-> req[r].lng]

\* io.emit(event): the server hands the event to every connected socket.
Emit(event) ==
    inbox' = [s \in Sockets |-> IF s \in listeners THEN Append(inbox[s], event) ELSE inbox[s]]

\* NewsArticle.create settles, resolved or rejected alike (the rejection is
\* caught by the inner try); io.emit('hazard-reported') runs; notifyNearbyUsers
\* is called and awaits User.find inside findNearbyUsers.
NewsDone(r) ==
    /\ pc[r] = "news"
    /\ emitted' = [emitted EXCEPT ![r] = @ + 1]
    /\ Emit(hazardReported(r))
    /\ hist' = [hist EXCEPT ![r].fanout = TRUE, ![r].audience = listeners]
    /\ pc' = [pc EXCEPT ![r] = "find"]
    /\ UNCHANGED <<req, res, reports, ledger, registered, env, emailSent, found, fan, seen>>
    /\ UNCHANGED dispatchVars
    /\ UNCHANGED listeners
    /\ UNCHANGED besidePush

\* The attempts notifyNearbyUsers starts for one found user.  A started
\* attempt is pending while it awaits the reverse-geocoding request and then
\* the transport; the WhatsApp attempt returns at once when the Twilio client
\* is absent.
StartAttempts(u) ==
    [email |-> IF Directory(u).email THEN "pending" ELSE "none",
     wa    |-> IF Directory(u).phone
                 THEN (IF loaded.twilioClient /\ loaded.twilioWhatsAppNumber
                         THEN "pending" ELSE "unconfigured")
                 ELSE "none"]

\* User.find settles (a rejection is turned into [] by findNearbyUsers); the
\* map over nearbyUsers starts every attempt of every user.
FindDone(r, findOk) ==
    /\ pc[r] = "find"
    /\ LET users == IF findOk
                      THEN findNearbyUsers(req[r].lat, req[r].lng, RadiusMeters)
                      ELSE {}
       IN /\ found' = [found EXCEPT ![r] = users]
          /\ fan' = [fan EXCEPT ![r] =
                       [u \in Users |-> IF u \in users THEN StartAttempts(u) ELSE NoAttempt]]
    /\ pc' = [pc EXCEPT ![r] = "fanout"]
    /\ UNCHANGED <<req, res, reports, ledger, registered, env, emailSent, emitted, seen, hist>>
    /\ UNCHANGED dispatchVars
    /\ UNCHANGED extVars

\* What sendEmail can return: false when the credentials are absent,
\* otherwise the outcome of transporter.sendMail (a rejection is caught).
EmailResults == IF env.email THEN BOOLEAN ELSE {FALSE}

\* Mutant: the e-mail and WhatsApp sends of a user run in sequence and a
\* failed e-mail throws past the WhatsApp send, which is dropped.
EmailDoneDropsWhatsApp(r, u, ok) ==
    /\ pc[r] = "fanout"
    /\ fan[r][u].email = "pending"
    /\ ok \in EmailResults
    /\ fan' = [fan EXCEPT ![r][u] = IF ok THEN [@ EXCEPT !.email = "ok"]
                                           ELSE [email |-> "fail", wa |-> "none"]]
    /\ UNCHANGED <<pc, req, res, reports, ledger, registered, env, emailSent, emitted, found, seen, hist>>
    /\ UNCHANGED dispatchVars
    /\ UNCHANGED extVars

\* The e-mail attempt for user u settles: getAddressFromCoordinates has
\* returned an address or the coordinate fallback and sendEmail has returned.
EmailDone(r, u, ok) ==
    /\ pc[r] = "fanout"
    /\ fan[r][u].email = "pending"
    /\ ok \in EmailResults
    /\ fan' = [fan EXCEPT ![r][u].email = IF ok THEN "ok" ELSE "fail"]
    /\ UNCHANGED <<pc, req, res, reports, ledger, registered, env, emailSent, emitted, found, seen, hist>>
    /\ UNCHANGED dispatchVars
    /\ UNCHANGED extVars

\* The WhatsApp attempt for user u settles: twilioClient.messages.create has
\* resolved, or it or the geocoding before it has thrown into the catch.
WaDone(r, u, ok) ==
    /\ pc[r] = "fanout"
    /\ fan[r][u].wa = "pending"
    /\ fan' = [fan EXCEPT ![r][u].wa = IF ok THEN "ok" ELSE "fail"]
    /\ UNCHANGED <<pc, req, res, reports, ledger, registered, env, emailSent, emitted, found, seen, hist>>
    /\ UNCHANGED dispatchVars
    /\ UNCHANGED extVars

\* Mutant: notifyNearbyUsers is not awaited (the attempts are not waited for).
FanoutDoneEarly(r) ==
    /\ pc[r] = "fanout"
    /\ Respond(r, 201)
    /\ UNCHANGED <<reports, ledger, registered, env, emitted, hist>>
    /\ UNCHANGED dispatchVars
    /\ UNCHANGED extVars

\* Promise.all over every attempt has resolved: notifyNearbyUsers returns and
\* the handler answers 201.
FanoutDone(r) ==
    /\ pc[r] = "fanout"
    /\ AllSettled(r)
    /\ Respond(r, 201)
    /\ UNCHANGED <<reports, ledger, registered, env, emitted, hist>>
    /\ UNCHANGED dispatchVars
    /\ UNCHANGED extVars

\* ------------------------------------------------- moderation handlers
\* verifyReport (adminController): findByIdAndUpdate on an existing report,
\* requested by the administrator (user 1).
VerifyReport(id) ==
    /\ reports[id].exists
    /\ reports' = [reports EXCEPT ![id] = Verified(@, 1)]
    /\ UNCHANGED <<pc, req, res, ledger, registered, env, emailSent, emitted, found, fan, seen, hist>>
    /\ UNCHANGED dispatchVars
    /\ UNCHANGED extVars

\* updateHazardReport (hazardController): sets `verified` from the body.
UpdateHazardReport(id, verified) ==
    /\ reports[id].exists
    /\ reports' = [reports EXCEPT ![id].verified = verified]
    /\ UNCHANGED <<pc, req, res, ledger, registered, env, emailSent, emitted, found, fan, seen, hist>>
    /\ UNCHANGED dispatchVars
    /\ UNCHANGED extVars

\* declineReport (adminController): the report is removed from the store.
DeclineReport(id) ==
    /\ reports[id].exists
    /\ reports' = [reports EXCEPT ![id] = NoReport]
    /\ UNCHANGED <<pc, req, res, ledger, registered, env, emailSent, emitted, found, fan, seen, hist>>
    /\ UNCHANGED dispatchVars
    /\ UNCHANGED extVars

\* Mutant: deleting a report also deletes its ledger documents.
DeleteReportCascade(id) ==
    /\ reports[id].exists
    /\ reports' = [reports EXCEPT ![id] = NoReport]
    /\ ledger' = {rec \in ledger : rec.reportId # id}
    /\ UNCHANGED <<pc, req, res, registered, env, emailSent, emitted, found, fan, seen, hist>>
    /\ UNCHANGED dispatchVars
    /\ UNCHANGED extVars

\* deleteReport (adminController) and deleteHazardReport (hazardController):
\* HazardReport.findByIdAndDelete.
DeleteReport(id) ==
    /\ reports[id].exists
    /\ reports' = [reports EXCEPT ![id] = NoReport]
    /\ UNCHANGED <<pc, req, res, ledger, registered, env, emailSent, emitted, found, fan, seen, hist>>
    /\ UNCHANGED dispatchVars
    /\ UNCHANGED extVars

\* ------------------------------------------------------ socket.io server
\* io.on('connection'): a browser connects its socket.
Connect(s) ==
    /\ s \notin listeners
    /\ listeners' = listeners \cup {s}
    /\ UNCHANGED inbox
    /\ UNCHANGED coreVars
    /\ UNCHANGED dispatchVars
    /\ UNCHANGED besidePush

\* socket.on('disconnect'): the socket leaves.
Disconnect(s) ==
    /\ s \in listeners
    /\ listeners' = listeners \ {s}
    /\ UNCHANGED inbox
    /\ UNCHANGED coreVars
    /\ UNCHANGED dispatchVars
    /\ UNCHANGED besidePush

\* The steps of the createHazardReport handlers of the requests in R.
Ingest(R) ==
    \/ \E r \in R, b \in Inputs : Submit(r, b)
    \/ \E r \in R : CreateOk(r)
    \/ \E r \in R : CreateThrows(r)
    \/ \E r \in R : LookupOk(r)
    \/ \E r \in R : LookupThrows(r)
    \/ \E r \in R, ok \in BOOLEAN : AuthMailDone(r, ok)
    \/ \E r \in R : RecordOk(r)
    \/ \E r \in R : RecordThrows(r)
    \/ \E r \in R : NewsDone(r)
    \/ \E r \in R, findOk \in BOOLEAN : FindDone(r, findOk)
    \/ \E r \in R : FanoutDone(r)

\* The recipient attempts started by notifyNearbyUsers settling.
Deliver(R) ==
    \/ \E r \in R, u \in Users, ok \in BOOLEAN : EmailDone(r, u, ok)
    \/ \E r \in R, u \in Users, ok \in BOOLEAN : WaDone(r, u, ok)

\* The moderation requests on the reports in R.
Moderate(R) ==
    \/ \E id \in R : VerifyReport(id)
    \/ \E id \in R, verified \in BOOLEAN : UpdateHazardReport(id, verified)
    \/ \E id \in R : DeclineReport(id)
    \/ \E id \in R : DeleteReport(id)

Next == Ingest(FullReqs) \/ Deliver(FullReqs)

\* Report creation and the moderation of the reports it stores.
NextModerate == Ingest(FullReqs) \/ Moderate(FullReqs)

NextIngest == Ingest(Reqs)

Spec == Init /\ [][Next]_vars

\* Concurrent report creation alone.  The moderation handlers read and write
\* only the report store, which createHazardReport never reads, and with no
\* user in reach User.find returns [] so that no recipient attempt is started.
SpecIngest == InitIngest /\ [][NextIngest]_vars

\* Report creation with the moderation handlers on the report store; no user
\* in reach, so that no recipient attempt is started.
SpecModerate == InitIngest /\ [][NextModerate]_vars


\* Report creation while browsers connect and disconnect; no registered user
\* has a stored location, so no recipient attempt is started.
NextBroadcast ==
    \/ Ingest(FullReqs)
    \/ \E s \in Sockets : Connect(s)
    \/ \E s \in Sockets : Disconnect(s)

SpecBroadcast == InitIngest /\ [][NextBroadcast]_vars


\* ------------------------------------------- notifyNearbyUsers in detail
\* One pass of notifyNearbyUsers, called by createHazardReport for a stored
\* report, with every await of the senders as a step of its own: the reverse
\* geocoding request and the transport request of each attempt.

\* Centres of the hazards handed to the pass.
Centres == {[lat |-> 0, lng |-> 0], [lat |-> BoxTenths, lng |-> 0]}

\* Radii of the queries on stored locations: the caller's 10 km and the
\* distances of one and two tenths of a degree.
Radii == {RadiusMeters, MetersPerTenth, 2 * MetersPerTenth}

\* Locations a user can have stored: none, or a point on the meridian.
Places == {NoPlace} \cup [hasLoc : {TRUE}, lat : {0, BoxTenths, 2 * BoxTenths}, lng : {0}]

DispatchEnvs == [authority : {TRUE}, email : BOOLEAN, twilio : BOOLEAN, waNumber : BOOLEAN]

Range(s) == {s[i] : i \in 1 .. Len(s)}

\* Mutant: the users in the radius in any order (no sort by distance).
NearOrdersUnsorted(lat, lng, radius) ==
    LET S == findNearbyUsers(lat, lng, radius)
    IN {s \in [1 .. Cardinality(S) -> S] :
          \A i, j \in 1 .. Cardinality(S) : i < j => s[i] # s[j]}

\* The arrays User.find with $near / $maxDistance can resolve to: the users
\* in the radius, nearest first (users at equal distance in any order).
NearOrders(lat, lng, radius) ==
    LET S == findNearbyUsers(lat, lng, radius)
    IN {s \in [1 .. Cardinality(S) -> S] :
          \A i, j \in 1 .. Cardinality(S) :
              i < j => (s[i] # s[j] /\ DistSq(s[i], lat, lng) <= DistSq(s[j], lat, lng))}

\* sendHazardEmailNotification is called: it runs up to its first await, the
\* axios request of getAddressFromCoordinates.
EmailTryStarted == [stage |-> "geocode", calls |-> 1, net |-> 1]

\* sendHazardWhatsAppNotification is called: it returns at once when the
\* Twilio client or the WhatsApp number is absent, otherwise it runs up to the
\* axios request of getAddressFromCoordinates.
WaTryStarted ==
    IF loaded.twilioClient /\ loaded.twilioWhatsAppNumber
      THEN [stage |-> "geocode", calls |-> 1, net |-> 1]
      ELSE [stage |-> "skipped", calls |-> 1, net |-> 0]

\* Mutant: the e-mail sender is called for every user found.
TriesForEmailAlways(u) ==
    [email |-> EmailTryStarted,
     wa    |-> IF Directory(u).phone THEN WaTryStarted ELSE NoTry]

\* The senders the map calls for one user found: e-mail if user.email is
\* set, WhatsApp if user.phone is set.
TriesFor(u) ==
    [email |-> IF Directory(u).email THEN EmailTryStarted ELSE NoTry,
     wa    |-> IF Directory(u).phone THEN WaTryStarted ELSE NoTry]

Over == {"none", "ok", "fail", "skipped"}

AllOver ==
    \A u \in Users : att[u].email.stage \in Over /\ att[u].wa.stage \in Over

\* createHazardReport reaches the dispatch of a stored report: io.emit
\* ('hazard-reported'), then notifyNearbyUsers(location, radius), which awaits
\* User.find inside findNearbyUsers.
NotifyCalled(c, radius) ==
    /\ npc = "idle"
    /\ npc' = "find"
    /\ hazard' = [lat |-> c.lat, lng |-> c.lng, radius |-> radius]
    /\ nemitted' = nemitted + 1
    /\ UNCHANGED <<place, nearbyUsers, att, warns, outcome, nres, lookup>>
    /\ UNCHANGED coreVars
    /\ UNCHANGED extVars

\* User.find resolves to an array s; the map over nearbyUsers calls the
\* sender of every channel the user has a contact for.
UserFindOk ==
    /\ npc = "find"
    /\ \E s \in NearOrders(hazard.lat, hazard.lng, hazard.radius) :
          /\ nearbyUsers' = s
          /\ att' = [u \in Users |->
                       IF u \in Range(s) THEN TriesFor(u) ELSE [email |-> NoTry, wa |-> NoTry]]
    /\ lookup' = "ok"
    /\ npc' = "sending"
    /\ UNCHANGED <<place, hazard, warns, outcome, nres, nemitted>>
    /\ UNCHANGED coreVars
    /\ UNCHANGED extVars

\* Mutant: findNearbyUsers lets the rejection through and the caller's outer
\* catch answers 500.
UserFindRethrows ==
    /\ npc = "find"
    /\ lookup' = "failed"
    /\ nres' = 500
    /\ npc' = "done"
    /\ UNCHANGED <<place, hazard, nearbyUsers, att, warns, outcome, nemitted>>
    /\ UNCHANGED coreVars
    /\ UNCHANGED extVars

\* User.find rejects: findNearbyUsers logs and returns [], the map is empty.
UserFindThrows ==
    /\ npc = "find"
    /\ nearbyUsers' = <<>>
    /\ lookup' = "failed"
    /\ npc' = "sending"
    /\ UNCHANGED <<place, hazard, att, warns, outcome, nres, nemitted>>
    /\ UNCHANGED coreVars
    /\ UNCHANGED extVars

\* The reverse-geocoding request of the e-mail attempt for u settles (an
\* address, or the coordinate fallback when it fails); sendEmail is called: it
\* warns and returns false without credentials, otherwise it awaits
\* transporter.sendMail.  sendHazardEmailNotification drops the boolean.
EmailGeocodeDone(u) ==
    /\ npc = "sending"
    /\ att[u].email.stage = "geocode"
    /\ IF env.email
         THEN /\ att' = [att EXCEPT ![u].email.stage = "transport", ![u].email.net = @ + 1]
              /\ warns' = warns
         ELSE /\ att' = [att EXCEPT ![u].email.stage = "fail"]
              /\ warns' = warns + 1
    /\ UNCHANGED <<place, npc, hazard, nearbyUsers, outcome, nres, nemitted, lookup>>
    /\ UNCHANGED coreVars
    /\ UNCHANGED extVars

\* The reverse-geocoding request of the WhatsApp attempt for u settles;
\* twilioClient.messages.create is awaited.
WaGeocodeDone(u) ==
    /\ npc = "sending"
    /\ att[u].wa.stage = "geocode"
    /\ att' = [att EXCEPT ![u].wa.stage = "transport", ![u].wa.net = @ + 1]
    /\ UNCHANGED <<place, npc, hazard, nearbyUsers, warns, outcome, nres, nemitted, lookup>>
    /\ UNCHANGED coreVars
    /\ UNCHANGED extVars

\* Mutant: a rejected sendMail makes the pass call the e-mail sender again.
EmailTransportDoneRetry(u, ok) ==
    /\ npc = "sending"
    /\ att[u].email.stage = "transport"
    /\ att[u].email.calls < 3
    /\ att' = [att EXCEPT ![u].email =
                  IF ok THEN [@ EXCEPT !.stage = "ok"]
                        ELSE [stage |-> "geocode", calls |-> @.calls + 1, net |-> @.net + 1]]
    /\ UNCHANGED <<place, npc, hazard, nearbyUsers, warns, outcome, nres, nemitted, lookup>>
    /\ UNCHANGED coreVars
    /\ UNCHANGED extVars

\* transporter.sendMail settles: resolved, or rejected into sendEmail's catch.
EmailTransportDone(u, ok) ==
    /\ npc = "sending"
    /\ att[u].email.stage = "transport"
    /\ att' = [att EXCEPT ![u].email.stage = IF ok THEN "ok" ELSE "fail"]
    /\ UNCHANGED <<place, npc, hazard, nearbyUsers, warns, outcome, nres, nemitted, lookup>>
    /\ UNCHANGED coreVars
    /\ UNCHANGED extVars

\* twilioClient.messages.create settles: resolved, or rejected into the catch.
WaTransportDone(u, ok) ==
    /\ npc = "sending"
    /\ att[u].wa.stage = "transport"
    /\ att' = [att EXCEPT ![u].wa.stage = IF ok THEN "ok" ELSE "fail"]
    /\ UNCHANGED <<place, npc, hazard, nearbyUsers, warns, outcome, nres, nemitted, lookup>>
    /\ UNCHANGED coreVars
    /\ UNCHANGED extVars

\* Mutant: the callback of the map does not return its Promise.all, so the
\* outer Promise.all resolves without waiting for the sends.
PassReturnsUnawaited ==
    /\ npc = "sending"
    /\ outcome' = [returned |-> TRUE, success |-> TRUE, notifiedCount |-> Len(nearbyUsers)]
    /\ npc' = "returned"
    /\ UNCHANGED <<place, hazard, nearbyUsers, att, warns, nres, nemitted, lookup>>
    /\ UNCHANGED coreVars
    /\ UNCHANGED extVars

\* Mutant: a pass that found nobody reports an error.
PassReturnsErrorOnEmpty ==
    /\ npc = "sending"
    /\ AllOver
    /\ outcome' = [returned |-> TRUE, success |-> nearbyUsers # <<>>,
                   notifiedCount |-> Len(nearbyUsers)]
    /\ npc' = "returned"
    /\ UNCHANGED <<place, hazard, nearbyUsers, att, warns, nres, nemitted, lookup>>
    /\ UNCHANGED coreVars
    /\ UNCHANGED extVars

\* Promise.all(notificationPromises) resolves: the pass returns its object.
PassReturns ==
    /\ npc = "sending"
    /\ AllOver
    /\ outcome' = [returned |-> TRUE, success |-> TRUE, notifiedCount |-> Len(nearbyUsers)]
    /\ npc' = "returned"
    /\ UNCHANGED <<place, hazard, nearbyUsers, att, warns, nres, nemitted, lookup>>
    /\ UNCHANGED coreVars
    /\ UNCHANGED extVars

\* createHazardReport logs the count and answers 201.
CallerResponds ==
    /\ npc = "returned"
    /\ nres' = 201
    /\ npc' = "done"
    /\ UNCHANGED <<place, hazard, nearbyUsers, att, warns, outcome, nemitted, lookup>>
    /\ UNCHANGED coreVars
    /\ UNCHANGED extVars

\* The steps taken by the program alone once a pass is called.
PassSteps ==
    \/ PassReturns
    \/ CallerResponds

\* The steps that wait for the reply of a service outside the program.
Replies ==
    \/ UserFindOk
    \/ UserFindThrows
    \/ \E u \in Users : EmailGeocodeDone(u)
    \/ \E u \in Users : WaGeocodeDone(u)
    \/ \E u \in Users, ok \in BOOLEAN : EmailTransportDone(u, ok)
    \/ \E u \in Users, ok \in BOOLEAN : WaTransportDone(u, ok)

NextDispatch ==
    \/ \E c \in Centres : NotifyCalled(c, RadiusMeters)
    \/ PassSteps
    \/ Replies

\* A pass for a stored report, every user registered, any configuration of
\* the recipient channels.
InitDispatch ==
    /\ Start
    /\ registered = Users
    /\ env \in DispatchEnvs
    /\ loaded = ModuleLoad(env)
    /\ place = [u \in AllUsers |-> StoredPlace(u)]

SpecDispatch == InitDispatch /\ [][NextDispatch]_vars

\* The event loop runs every step that is ready; the replies of the database
\* are taken to arrive, those of the geocoding and transport services are not.
SpecDispatchFair ==
    /\ SpecDispatch
    /\ WF_vars(PassSteps)
    /\ WF_vars(UserFindOk \/ UserFindThrows)

\* process.env is changed while the server runs and no pass is under way (the
\* deployment sets or removes a variable); the loaded modules are not reloaded.
SetEnv(e) ==
    /\ npc = "idle"
    /\ e # env
    /\ env' = e
    /\ UNCHANGED <<pc, req, res, reports, ledger, registered, emailSent, emitted, found, fan, seen, hist>>
    /\ UNCHANGED dispatchVars
    /\ UNCHANGED extVars

NextConfig ==
    \/ NextDispatch
    \/ \E e \in DispatchEnvs : SetEnv(e)

\* A pass after the configuration may have changed since start-up.
SpecConfig == InitDispatch /\ [][NextConfig]_vars

\* The lookup alone, for any stored locations, centre and radius.
InitNear ==
    /\ Start
    /\ registered = Users
    /\ env = Configured
    /\ loaded = ModuleLoad(env)
    /\ place \in [AllUsers -> Places]
    /\ place[0] = NoPlace

NextNear ==
    \/ \E c \in Centres, radius \in Radii : NotifyCalled(c, radius)
    \/ UserFindOk
    \/ UserFindThrows

SpecNear == InitNear /\ [][NextNear]_vars


\* ------------------------------------------------------- severity labels
\* A severity is a number in the wizard and in a JSON body, and a string of
\* decimal digits in a FormData body (data.severity.toString()).
toString(n) == IF n < 10 THEN <<n>> ELSE <<n \div 10, n % 10>>

\* The number a value converts to in a comparison with a number.
ToNumber(v) ==
    IF v.kind = "number"
      THEN v.n
      ELSE IF Len(v.digits) = 1 THEN v.digits[1] ELSE 10 * v.digits[1] + v.digits[2]

\* The property key a value converts to in an object lookup.
ToPropertyKey(v) == IF v.kind = "number" THEN toString(v.n) ELSE v.digits

\* api.createHazardReport: FormData when an image file is attached, else JSON.
Encode(n, form) ==
    IF form = "FormData"
      THEN [kind |-> "string", digits |-> toString(n)]
      ELSE [kind |-> "number", n |-> n]

\* The object literal severityLabels of createHazardReport; "" = undefined.
severityLabels(key) ==
    CASE key \in {<<1>>, <<2>>, <<3>>} -> "Low"
      [] key \in {<<4>>, <<5>>, <<6>>} -> "Medium"
      [] key \in {<<7>>, <<8>>} -> "High"
      [] key \in {<<9>>, <<1, 0>>} -> "Critical"
      [] OTHER -> ""

\* severityLabels[severity] || 'Medium'
newsSeverityLabel(v) ==
    IF severityLabels(ToPropertyKey(v)) = "" THEN "Medium" ELSE severityLabels(ToPropertyKey(v))

\* Mutant: the thresholds compared with < in place of <=.
mailSeverityLabelStrict(v) ==
    IF ToNumber(v) < 3 THEN "Low"
    ELSE IF ToNumber(v) < 6 THEN "Medium"
    ELSE IF ToNumber(v) < 8 THEN "High"
    ELSE "Critical"

\* The conditional chain of sendHazardNotificationEmail on data.severity.
mailSeverityLabel(v) ==
    IF ToNumber(v) <= 3 THEN "Low"
    ELSE IF ToNumber(v) <= 6 THEN "Medium"
    ELSE IF ToNumber(v) <= 8 THEN "High"
    ELSE "Critical"

\* getSeverityLabel of the wizard's summary step.
getSeverityLabel(sev) ==
    IF sev <= 3 THEN "Low"
    ELSE IF sev <= 6 THEN "Medium"
    ELSE IF sev <= 8 THEN "High"
    ELSE "Critical"

\* What the wizard renders at a step: the summary with its label at the last.
Rendered(st, sev) == IF st = totalSteps THEN getSeverityLabel(sev) ELSE ""

\* handleNext: validateStep, then the next step is shown.
handleNext ==
    /\ wire = NoWire
    /\ step < totalSteps
    /\ step = 2 => (severity >= MinSeverity /\ severity <= MaxSeverity)
    /\ step' = step + 1
    /\ labels' = [labels EXCEPT !.wizard = Rendered(step + 1, severity)]
    /\ UNCHANGED <<severity, wire>>
    /\ UNCHANGED <<coreVars, dispatchVars, besideWizard>>

\* handleBack: the previous step is shown.
handleBack ==
    /\ wire = NoWire
    /\ step > 1
    /\ step' = step - 1
    /\ labels' = [labels EXCEPT !.wizard = Rendered(step - 1, severity)]
    /\ UNCHANGED <<severity, wire>>
    /\ UNCHANGED <<coreVars, dispatchVars, besideWizard>>

\* The slider of step 2 is moved: setSeverity(parseInt(e.target.value)).
setSeverity(v) ==
    /\ wire = NoWire
    /\ step = 2
    /\ severity' = v
    /\ UNCHANGED <<step, wire, labels>>
    /\ UNCHANGED <<coreVars, dispatchVars, besideWizard>>

\* handleSubmit on the summary step: api.createHazardReport posts the body.
handleSubmit(form) ==
    /\ wire = NoWire
    /\ step = totalSteps
    /\ wire' = Encode(severity, form)
    /\ UNCHANGED <<step, severity, labels>>
    /\ UNCHANGED <<coreVars, dispatchVars, besideWizard>>

\* sendHazardNotificationEmail builds the subject (when the ledger says notify
\* and the mail settings are present); it runs before the news article.
MailSubject ==
    /\ wire # NoWire
    /\ labels.mail = "" /\ labels.news = ""
    /\ labels' = [labels EXCEPT !.mail = mailSeverityLabel(wire)]
    /\ UNCHANGED <<step, severity, wire>>
    /\ UNCHANGED <<coreVars, dispatchVars, besideWizard>>

\* createHazardReport builds the title of the news article.
NewsTitle ==
    /\ wire # NoWire
    /\ labels.news = ""
    /\ labels' = [labels EXCEPT !.news = newsSeverityLabel(wire)]
    /\ UNCHANGED <<step, severity, wire>>
    /\ UNCHANGED <<coreVars, dispatchVars, besideWizard>>

NextLabels ==
    \/ handleNext
    \/ handleBack
    \/ \E v \in MinSeverity .. MaxSeverity : setSeverity(v)
    \/ \E form \in {"FormData", "JSON"} : handleSubmit(form)
    \/ MailSubject
    \/ NewsTitle

\* One report from the wizard's slider to the labels the backend renders.
SpecLabels == InitIngest /\ [][NextLabels]_vars


\* --------------------------------------------- browser notification list
\* Mutant: the new entry is put at the end of the list.
ReceiveAppends ==
    /\ arrived < MaxEvents
    /\ arrived' = arrived + 1
    /\ hazardNotifications' = Append(hazardNotifications, [id |-> arrived + 1, read |-> FALSE])
    /\ UNCHANGED <<isOpen, clearedAt, marked>>
    /\ UNCHANGED <<coreVars, dispatchVars, besideClient>>

\* The listener of 'hazard-reported': the entry is put in front of the list.
\* The server emits one event per report, so every event has a new id.
Receive ==
    /\ arrived < MaxEvents
    /\ arrived' = arrived + 1
    /\ hazardNotifications' = <<[id |-> arrived + 1, read |-> FALSE]>> \o hazardNotifications
    /\ UNCHANGED <<isOpen, clearedAt, marked>>
    /\ UNCHANGED <<coreVars, dispatchVars, besideClient>>

\* The bell button: it exists while the list is not empty.
TogglePanel ==
    /\ hazardNotifications # <<>>
    /\ isOpen' = ~isOpen
    /\ UNCHANGED <<hazardNotifications, arrived, clearedAt, marked>>
    /\ UNCHANGED <<coreVars, dispatchVars, besideClient>>

\* A click on the entry at position i of the open panel: onMarkAsRead(id)
\* maps the list, setting read on the entries with that id.
onMarkAsRead(i) ==
    /\ isOpen
    /\ i \in 1 .. Len(hazardNotifications)
    /\ LET id == hazardNotifications[i].id
       IN /\ hazardNotifications' =
                [k \in 1 .. Len(hazardNotifications) |->
                    IF hazardNotifications[k].id = id
                      THEN [hazardNotifications[k] EXCEPT !.read = TRUE]
                      ELSE hazardNotifications[k]]
          /\ marked' = marked \cup {id}
    /\ UNCHANGED <<isOpen, arrived, clearedAt>>
    /\ UNCHANGED <<coreVars, dispatchVars, besideClient>>

\* 'Clear All' of the open panel: setHazardNotifications([]).
onClearAll ==
    /\ isOpen
    /\ hazardNotifications # <<>>
    /\ hazardNotifications' = <<>>
    /\ clearedAt' = arrived
    /\ marked' = {}
    /\ UNCHANGED <<isOpen, arrived>>
    /\ UNCHANGED <<coreVars, dispatchVars, besideClient>>

\* unreadCount of NotificationCenter.
unreadCount ==
    Cardinality({k \in 1 .. Len(hazardNotifications) : ~hazardNotifications[k].read})

\* The badge on the bell: nothing when the component renders null or nothing
\* is unread, the count up to 9, '9+' above.
Badge ==
    IF hazardNotifications = <<>> \/ unreadCount = 0
      THEN [shown |-> FALSE, count |-> 0, plus |-> FALSE]
      ELSE IF unreadCount > BadgeCap
        THEN [shown |-> TRUE, count |-> BadgeCap, plus |-> TRUE]
        ELSE [shown |-> TRUE, count |-> unreadCount, plus |-> FALSE]

NextClient ==
    \/ Receive
    \/ TogglePanel
    \/ \E i \in 1 .. MaxEvents : onMarkAsRead(i)
    \/ onClearAll

SpecClient == InitIngest /\ [][NextClient]_vars

\* ----------------------------------------------------------- admin routes
\* router.use(isAdmin) stands before the nine routes of adminRoutes, so every
\* admin request passes through the middleware and reaches its handler only
\* through next().  A request is followed await by await.  isAdmin reads
\* neither the route nor the body, so the operation a request names is drawn
\* when next() hands the request to the router.
\* No header, a token jwt.verify rejects, a valid token of a user.
Tokens == {NoToken, [kind |-> "bad", userId |-> 0]} \cup [kind : {"valid"}, userId : Accounts]

RoleInputs == {"user", "admin", "root"}   \* `role` of the body; "root" is in no enum

AdminOps ==
    [name : {"getDashboardStats", "getAllReports", "getAllUsers"}, id : {0}, role : {"none"}]
      \cup [name : {"verifyReport", "declineReport", "deleteReport"}, id : AdminReports, role : {"none"}]
      \cup [name : {"updateUserRole"}, id : Accounts, role : RoleInputs]
      \cup [name : {"toggleUserStatus", "deleteUser"}, id : Accounts, role : {"none"}]

\* What the admin steps leave alone among the variables of report creation.
besideStores == <<pc, req, res, ledger, env, emailSent, emitted, found, fan, seen, hist>>

\* User.findById(id): the document of a registered user, else null.
findById(id) ==
    IF id \in registered
      THEN [id |-> id, role |-> accounts[id].role, isActive |-> accounts[id].isActive]
      ELSE NoUser

\* The request is answered and the connection is free for its next request.
AdminRespond(q, status) ==
    /\ areq' = [areq EXCEPT ![q] = NoAdminReq]
    /\ ares' = [ares EXCEPT ![q] = status]

\* A handler answers without having written anything.
AdminAnswer(q, status) ==
    /\ AdminRespond(q, status)
    /\ UNCHANGED <<reports, registered, accounts>>

\* isAdmin on a request of any admin route without a usable token: no token
\* -> 401; jwt.verify throws on a bad token and the catch answers 401.
AdminRequestRefused(q, token) ==
    /\ areq[q].pc = "idle"
    /\ token.kind # "valid"
    /\ AdminAnswer(q, 401)
    /\ UNCHANGED <<besideStores, dispatchVars, besideAdmin>>

\* isAdmin up to its await on a request with a token jwt.verify accepts:
\* User.findById(decoded.userId) is started.
AdminRequest(q, token) ==
    /\ areq[q].pc = "idle"
    /\ token.kind = "valid"
    /\ areq' = [areq EXCEPT ![q] = [NoAdminReq EXCEPT !.pc = "auth", !.token = token]]
    /\ ares' = [ares EXCEPT ![q] = 0]
    /\ UNCHANGED <<reports, registered, accounts>>
    /\ UNCHANGED <<besideStores, dispatchVars, besideAdmin>>

\* Mutant: the isActive test of isAdmin is left out.
isAdminSkipsSuspended(q, op) ==
    /\ areq[q].pc = "auth"
    /\ LET user == findById(areq[q].token.userId)
       IN  IF user = NoUser THEN AdminRespond(q, 401)
           ELSE IF user.role # "admin" THEN AdminRespond(q, 403)
           ELSE IF op.name = "updateUserRole" /\ op.role \notin {"user", "admin"}
             THEN AdminRespond(q, 400)
           ELSE /\ areq' = [areq EXCEPT ![q].pc = "handler", ![q].op = op, ![q].user = user]
                /\ UNCHANGED ares
    /\ UNCHANGED <<reports, registered, accounts>>
    /\ UNCHANGED <<besideStores, dispatchVars, besideAdmin>>

\* isAdmin after User.findById resolved: no user -> 401, role not 'admin' ->
\* 403, suspended -> 403; else req.user = user and next() runs the handler up
\* to its first await (updateUserRole answers 400 to a role outside the enum).
isAdmin(q, op) ==
    /\ areq[q].pc = "auth"
    /\ LET user == findById(areq[q].token.userId)
       IN  IF user = NoUser THEN AdminRespond(q, 401)
           ELSE IF user.role # "admin" THEN AdminRespond(q, 403)
           ELSE IF ~user.isActive THEN AdminRespond(q, 403)
           ELSE IF op.name = "updateUserRole" /\ op.role \notin {"user", "admin"}
             THEN AdminRespond(q, 400)
           ELSE /\ areq' = [areq EXCEPT ![q].pc = "handler", ![q].op = op, ![q].user = user]
                /\ UNCHANGED ares
    /\ UNCHANGED <<reports, registered, accounts>>
    /\ UNCHANGED <<besideStores, dispatchVars, besideAdmin>>

\* User.findById of isAdmin rejects: the catch answers 401.
isAdminThrows(q) ==
    /\ areq[q].pc = "auth"
    /\ AdminAnswer(q, 401)
    /\ UNCHANGED <<besideStores, dispatchVars, besideAdmin>>

\* The handler named `name` is at its first await.
Handling(q, name) ==
    /\ areq[q].pc = "handler"
    /\ areq[q].op.name = name

\* getDashboardStats: counts and aggregates, nothing written.
getDashboardStats(q) ==
    /\ Handling(q, "getDashboardStats")
    /\ AdminAnswer(q, 200)
    /\ UNCHANGED <<besideStores, dispatchVars, besideAdmin>>

\* getAllReports: a page of reports, nothing written.
getAllReports(q) ==
    /\ Handling(q, "getAllReports")
    /\ AdminAnswer(q, 200)
    /\ UNCHANGED <<besideStores, dispatchVars, besideAdmin>>

\* getAllUsers: a page of users, nothing written.
getAllUsers(q) ==
    /\ Handling(q, "getAllUsers")
    /\ AdminAnswer(q, 200)
    /\ UNCHANGED <<besideStores, dispatchVars, besideAdmin>>

\* verifyReport: findByIdAndUpdate with verifiedBy = req.user._id; null -> 404.
verifyReport(q) ==
    /\ Handling(q, "verifyReport")
    /\ LET id == areq[q].op.id
       IN  IF reports[id].exists
             THEN /\ reports' = [reports EXCEPT ![id] = Verified(@, areq[q].user.id)]
                  /\ AdminRespond(q, 200)
             ELSE /\ UNCHANGED reports
                  /\ AdminRespond(q, 404)
    /\ UNCHANGED <<registered, accounts>>
    /\ UNCHANGED <<besideStores, dispatchVars, besideAdmin>>

\* declineReport up to the removal: findById (null -> 404), then the mail to
\* the reporter, whose failure is caught and logged.
declineReport(q) ==
    /\ Handling(q, "declineReport")
    /\ IF reports[areq[q].op.id].exists
         THEN /\ areq' = [areq EXCEPT ![q].pc = "remove"]
              /\ UNCHANGED ares
         ELSE AdminRespond(q, 404)
    /\ UNCHANGED <<reports, registered, accounts>>
    /\ UNCHANGED <<besideStores, dispatchVars, besideAdmin>>

\* declineReport: findByIdAndDelete, whatever it finds, then 200.
declineRemove(q) ==
    /\ areq[q].pc = "remove"
    /\ reports' = [reports EXCEPT ![areq[q].op.id] = NoReport]
    /\ AdminRespond(q, 200)
    /\ UNCHANGED <<registered, accounts>>
    /\ UNCHANGED <<besideStores, dispatchVars, besideAdmin>>

\* deleteReport: findByIdAndDelete; null -> 404.
deleteReport(q) ==
    /\ Handling(q, "deleteReport")
    /\ LET id == areq[q].op.id
       IN  IF reports[id].exists
             THEN /\ reports' = [reports EXCEPT ![id] = NoReport]
                  /\ AdminRespond(q, 200)
             ELSE /\ UNCHANGED reports
                  /\ AdminRespond(q, 404)
    /\ UNCHANGED <<registered, accounts>>
    /\ UNCHANGED <<besideStores, dispatchVars, besideAdmin>>

\* updateUserRole: findByIdAndUpdate({role}); null -> 404.
updateUserRole(q) ==
    /\ Handling(q, "updateUserRole")
    /\ LET id == areq[q].op.id
       IN  IF id \in registered
             THEN /\ accounts' = [accounts EXCEPT ![id].role = areq[q].op.role]
                  /\ AdminRespond(q, 200)
             ELSE /\ UNCHANGED accounts
                  /\ AdminRespond(q, 404)
    /\ UNCHANGED <<reports, registered>>
    /\ UNCHANGED <<besideStores, dispatchVars, besideAdmin>>

\* toggleUserStatus up to the save: findById; null -> 404.
toggleUserStatus(q) ==
    /\ Handling(q, "toggleUserStatus")
    /\ LET user == findById(areq[q].op.id)
       IN  IF user = NoUser
             THEN AdminRespond(q, 404)
             ELSE /\ areq' = [areq EXCEPT ![q].pc = "save", ![q].doc = user]
                  /\ UNCHANGED ares
    /\ UNCHANGED <<reports, registered, accounts>>
    /\ UNCHANGED <<besideStores, dispatchVars, besideAdmin>>

\* toggleUserStatus: user.isActive = !user.isActive; await user.save().  The
\* save writes the one modified path; on a document deleted meanwhile it
\* writes nothing and, depending on the mongoose version, resolves or rejects.
toggleSave(q, rejects) ==
    /\ areq[q].pc = "save"
    /\ LET id == areq[q].op.id
       IN  IF id \in registered
             THEN /\ accounts' = [accounts EXCEPT ![id].isActive = ~areq[q].doc.isActive]
                  /\ AdminRespond(q, 200)
             ELSE /\ UNCHANGED accounts
                  /\ AdminRespond(q, IF rejects THEN 500 ELSE 200)
    /\ UNCHANGED <<reports, registered>>
    /\ UNCHANGED <<besideStores, dispatchVars, besideAdmin>>

\* deleteUser: findByIdAndDelete; null -> 404.
deleteUser(q) ==
    /\ Handling(q, "deleteUser")
    /\ LET id == areq[q].op.id
       IN  IF id \in registered
             THEN /\ registered' = registered \ {id}
                  /\ accounts' = [accounts EXCEPT ![id] = Account(0)]   \* no document: the fields are back at the defaults
                  /\ AdminRespond(q, 200)
             ELSE /\ UNCHANGED <<registered, accounts>>
                  /\ AdminRespond(q, 404)
    /\ UNCHANGED reports
    /\ UNCHANGED <<besideStores, dispatchVars, besideAdmin>>

\* A database call of a handler rejects: its catch answers 500.
HandlerThrows(q) ==
    /\ areq[q].pc \in {"handler", "remove", "save"}
    /\ AdminAnswer(q, 500)
    /\ UNCHANGED <<besideStores, dispatchVars, besideAdmin>>

NextAdmin ==
    \/ \E q \in AdminReqs, token \in Tokens : AdminRequestRefused(q, token)
    \/ \E q \in AdminReqs, token \in Tokens : AdminRequest(q, token)
    \/ \E q \in AdminReqs, op \in AdminOps : isAdmin(q, op)
    \/ \E q \in AdminReqs : isAdminThrows(q)
    \/ \E q \in AdminReqs : getDashboardStats(q)
    \/ \E q \in AdminReqs : getAllReports(q)
    \/ \E q \in AdminReqs : getAllUsers(q)
    \/ \E q \in AdminReqs : verifyReport(q)
    \/ \E q \in AdminReqs : declineReport(q)
    \/ \E q \in AdminReqs : declineRemove(q)
    \/ \E q \in AdminReqs : deleteReport(q)
    \/ \E q \in AdminReqs : updateUserRole(q)
    \/ \E q \in AdminReqs : toggleUserStatus(q)
    \/ \E q \in AdminReqs, rejects \in BOOLEAN : toggleSave(q, rejects)
    \/ \E q \in AdminReqs : deleteUser(q)
    \/ \E q \in AdminReqs : HandlerThrows(q)

\* The admin routes on a stored report and two accounts, nothing else running.
SpecAdmin == InitAdmin /\ [][NextAdmin]_vars



\* ---------------------------------------------------------------- claims
Abs(x) == IF x < 0 THEN -x ELSE x

\* rec lies in the closed +-0.1 degree rectangle around (lat, lng).
InBox(rec, lat, lng) ==
    /\ Abs(rec.lat - lat) <= BoxTenths
    /\ Abs(rec.lng - lng) <= BoxTenths

Alive(r) == pc[r] \notin {"idle", "done"}

Decided(r) == Alive(r) /\ hist[r].decision \in {"notify", "suppress"}

\* The successful records of kind and box of handler r's report that were in
\* the ledger when r queried it.
SeenInBox(r) ==
    {rec \in ledger : /\ rec.emailSent
                      /\ rec.reportId \in seen[r]
                      /\ rec.type = req[r].type
                      /\ InBox(rec, req[r].lat, req[r].lng)}

\* C1 (as claimed): every handler that persisted its report answers 201,
\* whatever the ledger lookup, the e-mail, the ledger write, the broadcast or
\* the fan-out did afterwards.
C1_PersistedAnswers201 ==
    \A r \in Reqs : (pc[r] = "done" /\ hist[r].persisted) => res[r] = 201

\* C2 (as claimed): for every persisted report whose ledger check answered,
\* 'notify' or 'suppress' alike, notifyNearbyUsers has been executed by the
\* time the handler finishes.
C2_FanoutWhateverTheLedgerSaid ==
    \A r \in Reqs :
        (pc[r] = "done" /\ hist[r].decision \in {"notify", "suppress"}) => hist[r].fanout

\* C3: when the ledger query of a handler answers, the answer is 'do not
\* notify' exactly if the ledger holds a record of the same kind with
\* emailSent = true whose latitude and longitude are each within 0.1 degree
\* (inclusive) of the report's; any other ledger leads to the authority e-mail.
C3_DecisionIffRecordInBox ==
    [][\A r \in Reqs :
         (pc[r] = "lookup" /\ pc'[r] \in {"news", "authmail"}) =>
            /\ pc'[r] = "news" <=>
                 \E rec \in ledger : /\ rec.type = req[r].type
                                     /\ rec.emailSent
                                     /\ InBox(rec, req[r].lat, req[r].lng)
            /\ hist'[r].decision = (IF pc'[r] = "news" THEN "suppress" ELSE "notify")
            /\ hist'[r].authAttempts = (IF pc'[r] = "news" THEN 0 ELSE 1)]_vars

C3_Witness ==
    \E r \in Reqs :
        /\ pc[r] = "authmail"
        /\ \E rec \in ledger : rec.reportId \in seen[r] /\ rec.reportId # 0
                                 /\ ~rec.emailSent /\ rec.type = req[r].type
                                 /\ InBox(rec, req[r].lat, req[r].lng)
        /\ \E rec \in ledger : rec.reportId \in seen[r] /\ rec.emailSent
                                 /\ rec.type = req[r].type
                                 /\ ~InBox(rec, req[r].lat, req[r].lng)

C5_BroadcastBeforeLedgerCheck ==
    \A r \in Reqs :
        (hist[r].persisted /\ hist[r].decision # "none") => emitted[r] = 1

\* C6: during a fan-out every found user has every attempt he is eligible for
\* (e-mail if he has an address, WhatsApp if he has a phone), started and
\* either pending or settled, whatever the other attempts did; a failed
\* attempt removes no other attempt.
C6_AttemptsIsolated ==
    \A r \in Reqs :
        pc[r] = "fanout" =>
            \A u \in Users :
                /\ fan[r][u].email # "none" <=> (u \in found[r] /\ Directory(u).email)
                /\ fan[r][u].wa # "none" <=> (u \in found[r] /\ Directory(u).phone)

C6_Witness ==
    \E r \in Reqs :
        /\ pc[r] = "fanout"
        /\ {1, 2} \subseteq found[r]
        /\ fan[r][1].email = "fail"
        /\ fan[r][1].wa = "ok"
        /\ fan[r][2].email = "ok"

C8_SuppressionAfterWrite ==
    \A r \in Reqs :
        /\ hist[r].authAttempts <= 1
        /\ (Alive(r) /\ hist[r].authAttempts = 1) =>
              \A rec \in ledger :
                  (rec.emailSent /\ rec.reportId # r /\ rec.type = req[r].type
                     /\ InBox(rec, req[r].lat, req[r].lng)) => rec.reportId \notin seen[r]

\* Two authority e-mails for one incident: both handlers queried before either wrote.
C8_Witness ==
    \E r1 \in Reqs, r2 \in Reqs :
        /\ r1 # r2
        /\ Alive(r2) /\ hist[r2].authAttempts = 1 /\ emailSent[r2]
        /\ pc[r2] \in {"record", "news"}
        /\ \E rec \in ledger : /\ rec.reportId = r1
                               /\ rec.emailSent
                               /\ rec.type = req[r2].type
                               /\ InBox(rec, req[r2].lat, req[r2].lng)

\* C9: no step removes or changes a ledger record: the ledger only grows,
\* whatever is created, updated, verified, declined or deleted.
C9_LedgerAppendOnly == [][ledger \subseteq ledger']_vars

C9_Witness ==
    \E id \in Reqs :
        /\ hist[id].persisted
        /\ ~reports[id].exists
        /\ \E rec \in ledger : rec.reportId = id

\* C10 (as claimed): a handler whose ledger lookup failed has still attempted
\* the authority e-mail, emitted the broadcast and run the fan-out.
C10_LookupFailureMeansNotify ==
    \A r \in Reqs :
        (pc[r] = "done" /\ hist[r].decision = "error") =>
            (hist[r].authAttempts = 1 /\ emitted[r] = 1 /\ hist[r].fanout)

\* Some sender has been called during the pass.
SomeCall == \E u \in Users : att[u].email.calls > 0 \/ att[u].wa.calls > 0

\* User u has a stored location within the radius of the hazard of the pass.
InReach(u) ==
    /\ u \in registered
    /\ place[u].hasLoc
    /\ ((place[u].lat - hazard.lat) * (place[u].lat - hazard.lat)
          + (place[u].lng - hazard.lng) * (place[u].lng - hazard.lng))
         * MetersPerTenth * MetersPerTenth <= hazard.radius * hazard.radius

\* C11: when the geospatial lookup fails, the recipient list is empty, no
\* sender is called, nothing is left to wait for, the pass returns an outcome
\* with zero recipients and the caller answers 201.
C11_LookupFailureMeansNoRecipients ==
    lookup = "failed" =>
        /\ nearbyUsers = <<>>
        /\ ~SomeCall
        /\ npc = "sending" => ENABLED PassReturns
        /\ outcome.returned => outcome.notifiedCount = 0
        /\ nres \in {0, 201}
        /\ npc = "done" => (outcome.returned /\ nres = 201)

C11_Witness ==
    /\ lookup = "failed"
    /\ npc = "done"
    /\ nres = 201
    /\ \E u \in Users : InReach(u)

\* C12: for every user the lookup returned, the e-mail sender is called (once)
\* exactly if the user has an e-mail address and the WhatsApp sender exactly if
\* he has a phone; nobody else gets a call, and the count of the outcome
\* includes the users who got none.
C12_ChannelsByContact ==
    npc \in {"sending", "returned", "done"} =>
        /\ \A u \in Users :
             /\ att[u].email.calls > 0 <=> (u \in Range(nearbyUsers) /\ Directory(u).email)
             /\ att[u].wa.calls > 0 <=> (u \in Range(nearbyUsers) /\ Directory(u).phone)
        /\ outcome.returned => outcome.notifiedCount = Cardinality(Range(nearbyUsers))

C12_Witness ==
    /\ npc = "done"
    /\ \E u, v \in Range(nearbyUsers) :
          /\ ~Directory(u).email /\ Directory(u).phone
          /\ att[u].wa.calls = 1 /\ att[u].email.calls = 0
          /\ ~Directory(v).email /\ ~Directory(v).phone
          /\ att[v].wa.calls = 0 /\ att[v].email.calls = 0
    /\ outcome.notifiedCount = Len(nearbyUsers)
    /\ Len(nearbyUsers) >= 4

\* C13: a pass whose lookup answers and finds no user within the radius calls
\* no sender, has nothing to wait for and returns normally with a count of 0.
C13_NobodyInReach ==
    (lookup = "ok" /\ \A u \in Users : ~InReach(u)) =>
        /\ nearbyUsers = <<>>
        /\ ~SomeCall
        /\ npc = "sending" => ENABLED PassReturns
        /\ outcome.returned => (outcome.success /\ outcome.notifiedCount = 0)
        /\ nres \in {0, 201}

C13_Witness ==
    /\ lookup = "ok"
    /\ \A u \in Users : ~InReach(u)
    /\ npc = "done"
    /\ outcome.returned /\ outcome.success /\ outcome.notifiedCount = 0
    /\ nres = 201

\* The users that got at least one successful send during the pass.
Reached == {u \in Users : att[u].email.stage = "ok" \/ att[u].wa.stage = "ok"}

\* C14 (as claimed): the figures of the returned outcome come from the
\* per-channel results: the notified count is the number of users reached by a
\* successful send, and success is reported only if no attempted send failed
\* or was skipped.
C14_OutcomeReflectsSends ==
    outcome.returned =>
        /\ outcome.notifiedCount = Cardinality(Reached)
        /\ outcome.success =>
             \A u \in Users : /\ att[u].email.stage \in {"none", "ok"}
                              /\ att[u].wa.stage \in {"none", "ok"}

\* C16: every sender is called at most once per user and channel, each
\* attempt issues at most one geocoding and one transport request, and an
\* attempt that is over (sent, failed or skipped) is never touched again.
C16_AtMostOnce ==
    [][\A u \in Users :
         /\ att'[u].email.calls <= 1 /\ att'[u].wa.calls <= 1
         /\ att'[u].email.net <= 2 /\ att'[u].wa.net <= 2
         /\ att[u].email.stage \in {"ok", "fail", "skipped"} => att'[u].email = att[u].email
         /\ att[u].wa.stage \in {"ok", "fail", "skipped"} => att'[u].wa = att[u].wa]_vars

C16_Witness ==
    /\ npc = "done"
    /\ \E u \in Users : /\ att[u].email.stage = "fail" /\ att[u].email.net = 2
                        /\ att[u].wa.stage = "ok"
    /\ \E u \in Users : att[u].wa.stage = "fail"

\* C17 (as claimed): an attempt on a channel whose configuration is absent
\* issues no network request at all, the reverse-geocoding request included.
C17_UnconfiguredMeansNoRequest ==
    \A u \in Users :
        /\ ~env.email => att[u].email.net = 0
        /\ ~(env.twilio /\ env.waNumber) => att[u].wa.net = 0

\* C18 (as claimed): a finished pass with the e-mail transport unconfigured
\* has failed every e-mail attempt, logged the 'not configured' warning once,
\* called the WhatsApp sender for every found user with a phone, and was
\* preceded by the broadcast.
C18_OneWarningPerPass ==
    (~env.email /\ npc \in {"returned", "done"}) =>
        /\ \A u \in Users : att[u].email.stage \in {"none", "fail"}
        /\ warns = (IF \E u \in Users : att[u].email.calls > 0 THEN 1 ELSE 0)
        /\ \A u \in Range(nearbyUsers) : Directory(u).phone => att[u].wa.calls = 1
        /\ nemitted = 1

\* C19 (as claimed): every pass that has started its sends returns and its
\* caller answers, even when a geocoding or transport service never replies.
C19_EveryPassAnswers == (npc = "sending") ~> (npc = "done")

\* Squared distance, in tenths of a degree, of user u from the hazard.
Away(u) ==
    (place[u].lat - hazard.lat) * (place[u].lat - hazard.lat)
      + (place[u].lng - hazard.lng) * (place[u].lng - hazard.lng)

\* C20: the array the lookup resolves to holds exactly the users with a stored
\* location within the radius (boundary included), each once, nearest first;
\* a user without a stored location is never in it.
C20_ExactlyTheUsersInRadiusNearestFirst ==
    lookup = "ok" =>
        /\ \A u \in AllUsers : u \in Range(nearbyUsers) <=> InReach(u)
        /\ \A u \in Range(nearbyUsers) : place[u].hasLoc
        /\ \A i, j \in 1 .. Len(nearbyUsers) :
              i < j => /\ nearbyUsers[i] # nearbyUsers[j]
                       /\ Away(nearbyUsers[i]) <= Away(nearbyUsers[j])

\* The nearer user first, one exactly on the radius last, one beyond the radius and one without location left out.
C20_Witness ==
    /\ lookup = "ok"
    /\ hazard.radius = MetersPerTenth
    /\ Len(nearbyUsers) = 2
    /\ Away(nearbyUsers[1]) = 0
    /\ Away(nearbyUsers[2]) = 1
    /\ nearbyUsers[1] > nearbyUsers[2]
    /\ \E u \in Users : place[u].hasLoc /\ Away(u) > 1
    /\ \E u \in Users : ~place[u].hasLoc

\* C15 (as claimed): a request whose location is missing or not numeric or
\* out of range, or whose type or severity is invalid, and any request whose
\* report is not persisted, emits no broadcast, attempts no authority e-mail,
\* writes no ledger record and runs no fan-out; each of these steps runs at
\* most once per report.
C15_NoSideEffectWithoutValidReport ==
    \A r \in Reqs :
        /\ (req[r].shape \in {"noloc", "badloc", "badschema"} \/ ~hist[r].persisted) =>
              /\ emitted[r] = 0
              /\ hist[r].authAttempts = 0
              /\ ~hist[r].fanout
              /\ r \notin Recorded(ledger)
        /\ emitted[r] <= 1
        /\ hist[r].authAttempts <= 1
        /\ Cardinality({rec \in ledger : rec.reportId = r}) <= 1

\* The positions in the events socket s received that carry report id.
EventsOf(s, id) == {i \in 1 .. Len(inbox[s]) : inbox[s][i].id = id}

\* C21 (as claimed): every created report produces one 'hazard-reported'
\* event; the event carries the id, type and location of the stored report
\* and reaches every socket connected when it is emitted, wherever that
\* socket's user is and whether the ledger said notify or suppress; no other
\* socket gets it and nobody gets it twice.
C21_EveryReportBroadcastToAll ==
    \A r \in Reqs :
        /\ (pc[r] = "done" /\ hist[r].persisted) => emitted[r] = 1
        /\ emitted[r] <= 1
        /\ \A s \in Sockets :
              /\ Cardinality(EventsOf(s, r)) = (IF s \in hist[r].audience THEN 1 ELSE 0)
              /\ Alive(r) => \A i \in EventsOf(s, r) : inbox[s][i] = hazardReported(r)

\* The mapping as the specification states it.
LabelOf(n) ==
    CASE n \in 1 .. 3 -> "Low"
      [] n \in 4 .. 6 -> "Medium"
      [] n \in 7 .. 8 -> "High"
      [] n \in 9 .. 10 -> "Critical"

\* C22: for every integer severity 1..10 chosen in the wizard, each of the
\* three places that has rendered a label (wizard summary, authority e-mail,
\* news title) shows Low for 1-3, Medium for 4-6, High for 7-8 and Critical
\* for 9-10, so that all three agree, whether the body carried the severity
\* as a number or as a string.
C22_SeverityLabelsAgree ==
    severity \in 1 .. 10 =>
        /\ labels.wizard \in {"", LabelOf(severity)}
        /\ labels.mail \in {"", LabelOf(severity)}
        /\ labels.news \in {"", LabelOf(severity)}

C22_Witness ==
    /\ severity = 10
    /\ wire = [kind |-> "string", digits |-> <<1, 0>>]
    /\ labels = [wizard |-> "Critical", mail |-> "Critical", news |-> "Critical"]

\* Handlers q and r work on reports of the same kind at the same location.
SameIncident(q, r) ==
    /\ req[q].type = req[r].type
    /\ req[q].lat = req[r].lat
    /\ req[q].lng = req[r].lng

\* C23: the step in which a handler's ledger query answers changes neither
\* the ledger nor the reports, the events, the users, the configuration or
\* anything of another handler; and its answer is the one every other handler
\* got that asked for the same kind and location when the ledger held the
\* same records (no ledger write in between).
C23_DecisionIsPureRead ==
    [][\A r \in Reqs :
         (pc[r] = "lookup" /\ pc'[r] \in {"news", "authmail"}) =>
            /\ ledger' = ledger
            /\ UNCHANGED <<reports, emitted, registered, env, res, req, emailSent, found, fan>>
            /\ UNCHANGED <<dispatchVars, extVars>>
            /\ \A q \in Reqs \ {r} :
                  /\ pc'[q] = pc[q] /\ hist'[q] = hist[q] /\ seen'[q] = seen[q]
                  /\ (Decided(q) /\ SameIncident(q, r) /\ seen[q] = Recorded(ledger)) =>
                        hist'[r].decision = hist[q].decision]_vars

\* Two handlers asked for the same incident with no ledger write in between
\* and both were told to notify.
C23_Witness ==
    \E q, r \in Reqs :
        /\ q # r
        /\ pc[q] = "authmail" /\ pc[r] = "authmail"
        /\ SameIncident(q, r)
        /\ seen[q] = seen[r]
        /\ hist[q].decision = "notify" /\ hist[r].decision = "notify"

\* The ledger records that carry the id of handler r's report.
RecordsOf(r) == {rec \in ledger : rec.reportId = r}

\* The handler is past its ledger write and has not answered yet.
PastRecord(r) == pc[r] \in {"news", "find", "fanout"}

InFlight(t) == t.stage \in {"geocode", "transport"}

\* C25: the step in which the lookup answers starts every attempt of every
\* recipient at once (none waits for another to settle), and the outcome is
\* produced only in a state where no started attempt is in flight; none is in
\* flight once the pass has returned.
C25_ReturnsAfterAllSettled ==
    [][/\ (npc = "find" /\ npc' = "sending") =>
            \A u \in Range(nearbyUsers') :
                /\ Directory(u).email => InFlight(att'[u].email)
                /\ Directory(u).phone => (InFlight(att'[u].wa) \/ att'[u].wa.stage = "skipped")
       /\ (~outcome.returned /\ outcome'.returned) =>
            \A u \in Users : ~InFlight(att[u].email) /\ ~InFlight(att[u].wa)
       /\ outcome'.returned =>
            \A u \in Users : ~InFlight(att'[u].email) /\ ~InFlight(att'[u].wa)]_vars

\* The pass has returned after sends of several users ended differently.
C25_Witness ==
    /\ npc = "returned"
    /\ outcome.returned
    /\ att[1].email.stage = "ok" /\ att[1].wa.stage = "fail"
    /\ att[2].email.stage = "fail"
    /\ att[3].wa.stage = "ok"

\* C26 (as claimed): whether a recipient channel is attempted is decided
\* from the configuration in force when the send is made, whatever it was
\* when the module was loaded: a WhatsApp send is skipped exactly if the
\* Twilio settings are absent then, and an e-mail send fails without a
\* transport request exactly if the mail credentials are absent then.
C26_ConfiguredDecidedAtSendTime ==
    npc \in {"sending", "returned", "done"} =>
        \A u \in Users :
            /\ att[u].wa.calls > 0 =>
                  (att[u].wa.stage = "skipped" <=> ~(env.twilio /\ env.waNumber))
            /\ att[u].email.stage \in {"transport", "ok", "fail"} =>
                  (att[u].email.net < 2 <=> ~env.email)

\* C27: a handler sends its response in the step in which it finishes and in
\* no other: 400 straight from the location check, 500 from a rejected store
\* call, 201 after the fan-out; a response once sent is never followed by a
\* second one, and a finished handler has sent one.
C27_ExactlyOneResponse ==
    [][\A r \in Reqs :
         /\ res[r] # 0 => res'[r] = res[r]
         /\ (pc'[r] = "done") <=> (res'[r] # 0)
         /\ (res[r] = 0 /\ res'[r] # 0) =>
               \/ res'[r] = 400 /\ pc[r] = "idle" /\ ~hist'[r].persisted
               \/ res'[r] = 500 /\ pc[r] \in {"create", "lookup", "record"}
               \/ res'[r] = 201 /\ pc[r] = "fanout" /\ hist[r].persisted]_vars

\* A handler that stored its report, attempted the e-mail and answered 500.
C27_Witness ==
    \E r \in Reqs :
        /\ pc[r] = "done" /\ res[r] = 500
        /\ hist[r].persisted /\ hist[r].authAttempts = 1

\* The list holds one entry per event received since the last clear, newest
\* first, and an entry is read exactly if onMarkAsRead was called with its id.
ListMirrorsEvents ==
    /\ Len(hazardNotifications) = arrived - clearedAt
    /\ \A k \in 1 .. Len(hazardNotifications) :
          /\ hazardNotifications[k].id = arrived - k + 1
          /\ hazardNotifications[k].read <=> hazardNotifications[k].id \in marked

\* The number of events received since the last clear and not marked since.
Unread == Cardinality({id \in clearedAt + 1 .. arrived : id \notin marked})

\* C28 (as claimed): the list mirrors the events received since the last
\* clear, newest first, with read set exactly on the marked ones, and the
\* unread badge equals the number of unread entries.
C28_BadgeEqualsUnread ==
    /\ ListMirrorsEvents
    /\ Unread > 0 => Badge = [shown |-> TRUE, count |-> Unread, plus |-> FALSE]
    /\ Unread = 0 => ~Badge.shown

\* C28 (amended): the list mirrors the events received since the last clear,
\* newest first, with read set exactly on the marked ones; the unread badge
\* shows the number of unread entries when it is 1 to 9, '9+' when it is
\* larger, and is not shown when nothing is unread.
C28_BadgeCappedAtNine ==
    /\ ListMirrorsEvents
    /\ (Unread > 0 /\ Unread <= 9) => Badge = [shown |-> TRUE, count |-> Unread, plus |-> FALSE]
    /\ Unread > 9 => Badge = [shown |-> TRUE, count |-> 9, plus |-> TRUE]
    /\ Unread = 0 => ~Badge.shown

\* After a clear: ten unread entries and a read one between them.
C28_Witness ==
    /\ clearedAt > 0
    /\ Len(hazardNotifications) = 11
    /\ Unread = 10
    /\ hazardNotifications[5].read
    /\ Badge.plus

\* C29 (as claimed): every stored report has verified = true exactly if its
\* verificationStatus is 'admin-verified' or 'ai-verified', and an
\* admin-verified report has verifiedBy and verifiedAt set.
C29_VerificationFieldsAgree ==
    \A id \in Reqs :
        reports[id].exists =>
            /\ reports[id].verified <=>
                  reports[id].verificationStatus \in {"admin-verified", "ai-verified"}
            /\ reports[id].verificationStatus = "admin-verified" =>
                  (reports[id].verifiedBy # 0 /\ reports[id].verifiedAt # "null")

\* The user document u is that of an existing, active administrator.
Entitled(user) == user # NoUser /\ user.role = "admin" /\ user.isActive

\* The handler of connection q is running, between next() and its response.
InHandler(q) == areq[q].pc \in {"handler", "remove", "save"}

\* C30: an admin handler runs only for a request whose token is valid and
\* names a user who, when isAdmin looks the user up, exists, has role 'admin'
\* and is active; a request whose user is not so is answered 401 or 403 at
\* that step; a request without a valid token is answered 401; and reports
\* and users change only in steps of a handler started that way.
C30_AdminOnlyForActiveAdmins ==
    [][/\ \A q \in AdminReqs :
            /\ (areq[q].pc = "idle" /\ areq'[q].pc # "idle")
                  => areq'[q].pc = "auth" /\ areq'[q].token.kind = "valid"
            /\ (~InHandler(q) /\ InHandler(q)')
                  => areq[q].pc = "auth" /\ Entitled(findById(areq[q].token.userId))
            /\ (areq[q].pc = "auth" /\ areq'[q] # areq[q] /\ ~Entitled(findById(areq[q].token.userId)))
                  => /\ areq'[q].pc = "idle"
                     /\ ares'[q] \in {401, 403}
                     /\ UNCHANGED <<reports, registered, accounts>>
            /\ (~InHandler(q) /\ ares'[q] # ares[q] /\ ares'[q] \notin {0, 401, 403})
                  => areq[q].pc = "auth" /\ Entitled(findById(areq[q].token.userId))
       /\ (<<reports, registered, accounts>>' # <<reports, registered, accounts>>)
            => \E q \in AdminReqs :
                   InHandler(q) /\ Entitled(areq[q].user) /\ areq'[q] = NoAdminReq]_vars

\* Administrator 1 has verified the report and was suspended afterwards; one
\* request was answered 403 and another request with a token of user 1 is at
\* the look-up of isAdmin.
C30_Witness ==
    /\ 1 \in registered /\ accounts[1].role = "admin" /\ ~accounts[1].isActive
    /\ reports[1].verifiedBy = 1
    /\ ares[1] = 403
    /\ areq[2].pc = "auth" /\ areq[2].token.userId = 1

=============================================================================
